---- MODULE Spec2Model ----
(***************************************************************************)
(* PyABSA: the ATEPC training entry point (train4atepc, Instructor), the   *)
(* APC dataset builder (ABSADataset), the AspectExtractor and the          *)
(* checkpoint files it is loaded from, as state machines.                  *)
(*                                                                         *)
(*   Spec         train4atepc: the construction retry loop and the steps   *)
(*                of Instructor.__init__, up to the call of train          *)
(*   SpecTrain    Instructor.train of a constructed Instructor: its        *)
(*                batches, evaluations and checkpoints                     *)
(*   SpecData     ABSADataset.__init__ over a file of polarity records     *)
(*   SpecExtract  AspectExtractor.extract_aspect over a decoded tag        *)
(*                sequence: _extract, _infer and set_sentiment_map         *)
(*   SpecLoader   the DataLoaders of Instructor and the passes over them   *)
(*   SpecFiles    _save_model and find_target_file on its directory        *)
(*   SpecLoad     AspectExtractor.__init__ from a checkpoint or from the   *)
(*                trainer, to, cpu, cuda and the forward passes            *)
(*   SpecOptim    the parameter groups of the optimizer                    *)
(*   SpecDecode   the tag decoding loop of AspectExtractor._extract        *)
(*   SpecFusion   the fusion vectors of a feature record, the word         *)
(*                alignment and the local branch of the forward pass       *)
(*   SpecCall     a batch from the feature record to the model arguments   *)
(*   SpecLog      Instructor.train with a log of its saves and metrics     *)
(***************************************************************************)
EXTENDS Integers, Sequences, FiniteSets, TLC

\* ------------------------------------------------------------------ bounds
\* Calls of Instructor(opt) that train4atepc may start (the loop itself is unbounded).
MaxAttempts == 3
\* Metric values observed by evaluate() range over 0..MaxMetric.
MaxMetric == 1
\* opt.log_step ranges over 1..MaxLogStep.
MaxLogStep == 3
\* len(self.train_examples).
NumTrainExamples == 2
\* opt.num_epoch.
NumEpoch == 2
\* opt.evaluate_begin ranges over 0..MaxEvaluateBegin.
MaxEvaluateBegin == 1
\* opt.batch_size as configured.
ConfiguredBatchSize == 4
\* opt.batch_size of a constructed Instructor ranges over 1..MaxBatchSize.
MaxBatchSize == 2
\* The logged runs of Instructor.train have at most MaxLoggedEvals evaluations.
MaxLoggedEvals == 2
\* opt.gradient_accumulation_steps ranges over 0..MaxGradAccum.
MaxGradAccum == 2

\* Records (groups of three lines) in the dataset file read by ABSADataset.
MaxRecords == 3
\* Polarity labels in the file range over -1..MaxLabel.
MaxLabel == 2
\* Word tokens of the sentence given to _extract.
MaxTokens == 3
\* opt.polarities_dim of a loaded extractor ranges over 2..MaxPolaritiesDim.
MaxPolaritiesDim == 3
\* Examples of the held-out split.
NumEvalExamples == 3
\* Passes made over the two DataLoaders (epochs and evaluations together).
MaxPasses == 3
\* opt.l2reg ranges over 0..MaxL2Reg (in units of 1e-5).
MaxL2Reg == 2
\* opt.max_seq_len ranges over 1..MaxSeqLen.
MaxSeqLen == 3
\* The entries of an encoder output vector range over 0..MaxVec.
MaxVec == 2

\* ------------------------------------------------------- program constants
\* time.sleep(60) in train4atepc.
RETRY_SECONDS == 60
\* SENTIMENT_PADDING of data_utils_for_inferring.
SENTIMENT_PADDING == -999
\* opt.polarities_dim as configured before the dataset is built.
ConfiguredPolaritiesDim == 3

VARIABLES
    \* --- train4atepc / Instructor
    opt,               \* the shared option object (the fields the trainer reads and writes)
    pc,                \* "loop" | "init" | "constructed" | "train" | "returned" | "raised" | "idle"
    ipc,               \* position in Instructor.__init__ (index into InitOrder)
    built,             \* what the __init__ calls of this process have built or read so far
    attempts,          \* Instructor(opt) calls started
    caught,            \* exceptions caught by the except clause of train4atepc
    slept,             \* seconds spent in time.sleep
    exc,               \* the exception last raised by __init__ ("None" if none)
    trainCalls,        \* trainer.train() calls
    epoch,             \* loop variable of train: for epoch in range(num_epoch)
    step,              \* loop variable of train: for step, batch in enumerate(iterator)
    global_step,       \* local of train
    batches,           \* training batches processed in this run
    optimizer_steps,   \* self.optimizer.step() calls so far
    max_test_metrics,  \* opt.max_test_metrics
    current,           \* the metrics the latest evaluation observed (current_* of train)
    evals,             \* evaluation events so far
    lastEvalBatch,     \* value of batches at the latest evaluation event (0: none yet)
    save_path,         \* local of train
    nsaves,            \* _save_model calls so far
    last_saved,        \* the save_path argument of the latest _save_model call
    result,            \* what train returned: <<>> (nothing yet), <<"path", p>> or <<"model">>
    \* --- ABSADataset.__init__
    ds_pc,             \* "idle" | "reading" | "built" | "failed"
    ds_labels,         \* the polarity line of every record of the file, in file order
    ds_i,              \* records read so far (the loop index i, in records)
    polarities_set,    \* local of __init__
    all_data,          \* local of __init__: the polarity of each data dict built so far
    polarities_dim,    \* opt.polarities_dim
    dataset,           \* <<>>: no ABSADataset object; <<d>>: one whose self.data is d
    ds_exc,            \* the exception __init__ raised ("None" if none)
    \* --- AspectExtractor.extract_aspect
    ex_pc,             \* "idle" | "split" | "returned" (from _extract) | "done" | "raised"
    decoded,           \* the tag sequence decoded from the logits (pred_iobs as first built)
    pred_iobs,         \* local of _extract, overwritten by the splitting loop
    polarity,          \* local of _extract, overwritten by the splitting loop
    asp_idx,           \* local of _extract
    asp_num,           \* local of _extract
    res,               \* local of _extract: the (tag sequence, polarity mask) of each result
    map_arg,           \* the argument of the latest set_sentiment_map call
    sentiment_map,     \* self.sentiment_map
    sentiments,        \* local of _infer: the dictionary the class ids are mapped through
    polarity_res,      \* <<>>: not set; <<"None">>; <<"list", l>>: the list _infer returned
    ex_exc,            \* the exception extract_aspect raised ("None" if none)
    \* --- the DataLoaders of Instructor
    samplers,          \* the sampler class of train_dataloader and of eval_dataloader
    passes,            \* the passes made so far: the split and the order of its examples
    \* --- the checkpoint directory and AspectExtractor.__init__ / to / cpu / cuda
    model_name,        \* opt.model_name of the trainer, as a sequence of name pieces
    train_device,      \* opt.device of the trainer, where its model resides
    dir,               \* the files of the checkpoint directory
    found,             \* the latest find_target_file call: its arguments and its result
    x_pc,              \* "none" | "loaded" | "failed": the AspectExtractor
    x_exc,             \* the exception AspectExtractor.__init__ raised ("None" if none)
    x_steps,           \* the steps of __init__ that ran after its loading block
    x_opt_device,      \* self.opt.device of the extractor
    x_model_device,    \* the device self.model resides on ("unset": no self.model)
    fwd,               \* <<>>, or the devices of the inputs and of the model at the latest
                       \* forward pass
    \* --- the optimizer of Instructor.__init__ and AspectExtractor.__init__
    param_names,       \* the names of self.model.named_parameters()
    l2reg,             \* opt.l2reg
    param_groups,      \* <<>>, or optimizer_grouped_parameters
    \* --- the tag decoding loop of AspectExtractor._extract
    dec_pc,            \* "idle" | "loop" | "done"
    dec_j,             \* the loop index j
    n_tokens,          \* len(all_tokens[0])
    ate_logits,        \* ate_logits[0] after argmax: one label id per position
    dec_iobs,          \* pred_iobs as the loop builds it
    \* --- the feature record of one example and the forward pass of the model
    task,              \* "apc": ABSADataset, LCF_BERT_LARGE | "atepc": Instructor,
                       \* LCF_ATEPC_LARGE
    lcf,               \* opt.lcf
    fw_pc,             \* "idle" | "features" | "compress" | "local" | "done"
    record,            \* <<>>, or the fusion vector fields of the feature record
    valid_ids,         \* valid_ids[i]
    context_out,       \* global_context_out[i], one value per position
    valid_output,      \* global_valid_output[i]
    fw_j,              \* the loop index j
    fw_jj,             \* the row index jj
    cat_out,           \* <<>>, or the representations that torch.cat joins
    \* --- one batch on its way from the feature record to the model
    site,              \* "train" | "evaluate" | "_extract" | "_infer": who calls the model
    call_pc,           \* "idle" | "dataset" | "unpacked" | "called"
    feature,           \* the fields input_ids_spc, input_mask, segment_ids of the record
    batch,             \* the first three tensors of the batch, in TensorDataset order
    locals,            \* <<>>, or the local names the batch is unpacked to
    passed,            \* <<>>, or the arguments the model received
    \* --- the log of one run of Instructor.train
    saved,             \* the directories _save_model has written in the run
    observed,          \* for each metric, the largest value evaluate() returned in the run
    sums               \* sum_apc_test_acc, sum_apc_test_f1, sum_ate_test_f1

trainVars == <<opt, pc, ipc, built, attempts, caught, slept, exc, trainCalls, epoch, step,
               global_step, batches, optimizer_steps, max_test_metrics, current, evals,
               lastEvalBatch,
               save_path, nsaves, last_saved, result>>

dataVars == <<ds_pc, ds_labels, ds_i, polarities_set, all_data, polarities_dim, dataset, ds_exc>>

extractVars == <<ex_pc, decoded, pred_iobs, polarity, asp_idx, asp_num, res,
                 map_arg, sentiment_map, sentiments, polarity_res, ex_exc>>

loaderVars == <<samplers, passes>>

ckptVars == <<model_name, train_device, dir, found, x_pc, x_exc, x_steps, x_opt_device,
              x_model_device, fwd>>

optimVars == <<param_names, l2reg, param_groups>>

decodeVars == <<dec_pc, dec_j, n_tokens, ate_logits, dec_iobs>>
fusionVars == <<task, lcf, fw_pc, record, valid_ids, context_out, valid_output, fw_j, fw_jj,
                cat_out>>
callVars == <<site, call_pc, feature, batch, locals, passed>>
logVars == <<saved, observed, sums>>

restVars == <<optimVars, decodeVars, fusionVars, callVars, logVars>>

vars == <<trainVars, dataVars, extractVars, loaderVars, ckptVars, restVars>>

\* ---------------------------------------------------------------- helpers
Metrics == 0..MaxMetric
MetricTriples == [apc_test_acc : Metrics, apc_test_f1 : Metrics, ate_test_f1 : Metrics]
ZeroMetrics == [apc_test_acc |-> 0, apc_test_f1 |-> 0, ate_test_f1 |-> 0]

\* '' (a falsy path).
NoPath == <<>>

\* A checkpoint directory named without the metrics.
EvalSavePathPlain(m) == <<"ckpt">>

\* The checkpoint directory of an evaluation: the format string of train, lines 193-200.
\* evaluate() returns every metric already rounded to two digits, so round(x, 2) leaves
\* it alone and the directory name is one-to-one in the three values.
EvalSavePath(m) == <<"ckpt", m.apc_test_acc, m.apc_test_f1, m.ate_test_f1>>

\* '{0}/{1}_{2}/': the directory of the save at the end of train, lines 255-258.
FinalSavePath == <<"final">>

\* A variant of InitOrder: the gradient_accumulation_steps check made only after the
\* pretrained encoder has been fetched.
InitOrderLateCheck ==
    <<"logger", "seed_dirs", "pretrained", "check_gas", "batch_size",
      "train_data", "eval_data", "model_optimizer">>

\* The order of the steps of Instructor.__init__.
InitOrder ==
    <<"logger", "check_gas", "batch_size", "seed_dirs", "pretrained",
      "train_data", "eval_data", "model_optimizer">>

\* A variant of ExceptClause: an except clause for ConnectionError only, which the
\* ValueError of a failed fetch passes by.
ExceptClauseConnectionOnly(e) ==
    IF e = "ConnectionError"
    THEN [caught |-> TRUE, sleep |-> RETRY_SECONDS]
    ELSE [caught |-> FALSE, sleep |-> 0]

\* The except clause of train4atepc: which exceptions it catches and how long it sleeps.
ExceptClause(e) ==
    IF e = "ValueError"
    THEN [caught |-> TRUE, sleep |-> RETRY_SECONDS]
    ELSE [caught |-> FALSE, sleep |-> 0]

\* len(train_dataloader): batches of one epoch.
BatchesPerEpoch(bs) == (NumTrainExamples + bs - 1) \div bs

\* A variant of Improves: a save only when all three metrics improve.
ImprovesAll(m, mx) ==
    /\ m.apc_test_acc > mx.apc_test_acc
    /\ m.apc_test_f1 > mx.apc_test_f1
    /\ m.ate_test_f1 > mx.ate_test_f1

\* The condition under which train calls _save_model after an evaluation.
Improves(m, mx) ==
    \/ m.apc_test_acc > mx.apc_test_acc
    \/ m.apc_test_f1 > mx.apc_test_f1
    \/ m.ate_test_f1 > mx.ate_test_f1

\* A variant of UpdateMax: the maxima overwritten by the latest metrics.
UpdateMaxOverwrite(m, mx) == m

\* A variant of UpdateMax: the maxima grow by the latest metrics, as the sums do.
UpdateMaxSum(m, mx) ==
    [apc_test_acc |-> mx.apc_test_acc + m.apc_test_acc,
     apc_test_f1  |-> mx.apc_test_f1 + m.apc_test_f1,
     ate_test_f1  |-> mx.ate_test_f1 + m.ate_test_f1]

\* The three independent updates of the running maxima.
UpdateMax(m, mx) ==
    [apc_test_acc |-> IF m.apc_test_acc > mx.apc_test_acc THEN m.apc_test_acc ELSE mx.apc_test_acc,
     apc_test_f1  |-> IF m.apc_test_f1 > mx.apc_test_f1 THEN m.apc_test_f1 ELSE mx.apc_test_f1,
     ate_test_f1  |-> IF m.ate_test_f1 > mx.ate_test_f1 THEN m.ate_test_f1 ELSE mx.ate_test_f1]

\* global_step after one batch.
StepIncrement(g) == g + 1 + 1

\* The test that triggers the evaluation branch after a batch.
EvalDue(g, o) == o.has_test /\ g % o.log_step = 0

\* ------------------------------------------------------------------- Init
TrainOpts ==
    [gradient_accumulation_steps : 0..MaxGradAccum,
     batch_size : {ConfiguredBatchSize},
     model_path_to_save : {"", "out"},
     log_step : 1..MaxLogStep,
     evaluate_begin : 0..MaxEvaluateBegin,
     num_epoch : {NumEpoch},
     has_test : BOOLEAN,
     use_bert_spc : {TRUE}]

TrainIdle ==
    /\ ipc = 1
    /\ built = {}
    /\ attempts = 0
    /\ caught = 0
    /\ slept = 0
    /\ exc = "None"
    /\ trainCalls = 0
    /\ epoch = 0
    /\ step = 0
    /\ global_step = 0
    /\ batches = 0
    /\ optimizer_steps = 0
    /\ max_test_metrics = ZeroMetrics
    /\ current = ZeroMetrics
    /\ evals = 0
    /\ lastEvalBatch = 0
    /\ save_path = NoPath
    /\ nsaves = 0
    /\ last_saved = NoPath
    /\ result = <<>>

\* No trainer in the process: the trainer's variables stay as they are.
TrainerUnused ==
    /\ opt = [gradient_accumulation_steps |-> 1, batch_size |-> 1, model_path_to_save |-> "",
              log_step |-> 1, evaluate_begin |-> 0, num_epoch |-> 0, has_test |-> FALSE,
              use_bert_spc |-> FALSE]
    /\ pc = "idle"
    /\ TrainIdle

DataIdle ==
    /\ ds_pc = "idle"
    /\ ds_labels = <<>>
    /\ ds_i = 0
    /\ polarities_set = {}
    /\ all_data = <<>>
    /\ polarities_dim = ConfiguredPolaritiesDim
    /\ dataset = <<>>
    /\ ds_exc = "None"

\* A sentiment_map argument: None, or a dict from class ids and the padding
\* sentinel to labels ({} when map has no key).
EmptyMap == [k \in {} |-> ""]
NoneMap == [is_none |-> TRUE, map |-> EmptyMap]
MapKeys == (0..(MaxPolaritiesDim - 1)) \cup {SENTIMENT_PADDING}
CallerDicts ==
    UNION {{[k \in S |-> IF k = SENTIMENT_PADDING THEN p ELSE "custom"] : p \in {"", "pad"}} :
           S \in SUBSET MapKeys}
SentimentMaps == {NoneMap} \cup {[is_none |-> FALSE, map |-> d] : d \in CallerDicts}

\* The truth value Python gives a sentiment_map: None and {} are false.
Truthy(sm) == ~sm.is_none /\ DOMAIN sm.map # {}

\* set_sentiment_map storing its argument untouched.
StoredMapAsGiven(sm) == sm

\* Lines 116-118: the value set_sentiment_map stores in self.sentiment_map.
StoredMap(sm) ==
    IF Truthy(sm) /\ SENTIMENT_PADDING \notin DOMAIN sm.map
    THEN [sm EXCEPT !.map = [k \in DOMAIN sm.map \cup {SENTIMENT_PADDING} |->
                               IF k = SENTIMENT_PADDING THEN "" ELSE sm.map[k]]]
    ELSE sm

\* Line 275.
DefaultSentiments ==
    (0 :> "Negative") @@ (1 :> "Neutral") @@ (2 :> "Positive") @@ (SENTIMENT_PADDING :> "")

\* Lines 272-278: the dictionary _infer maps the predicted class id through.
Sentiments(sm, dim) ==
    IF Truthy(sm) THEN sm.map
    ELSE IF dim = 3 THEN DefaultSentiments
    ELSE [k \in (0..dim) \cup {SENTIMENT_PADDING} |->
            IF k = SENTIMENT_PADDING THEN "" ELSE ToString(k)]

ExtractIdle ==
    /\ ex_pc = "idle"
    /\ decoded = <<>>
    /\ pred_iobs = <<>>
    /\ polarity = <<>>
    /\ asp_idx = 0
    /\ asp_num = 0
    /\ res = <<>>
    /\ map_arg = NoneMap
    /\ sentiment_map = NoneMap
    /\ sentiments = EmptyMap
    /\ polarity_res = <<>>
    /\ ex_exc = "None"

\* No optimizer built.
OptimIdle ==
    /\ param_names = {}
    /\ l2reg = 0
    /\ param_groups = <<>>

\* No sentence is being decoded.
DecodeIdle ==
    /\ dec_pc = "idle"
    /\ dec_j = 0
    /\ n_tokens = 0
    /\ ate_logits = <<>>
    /\ dec_iobs = <<>>

\* Nothing is logged.
LogIdle ==
    /\ saved = {}
    /\ observed = ZeroMetrics
    /\ sums = ZeroMetrics

\* No batch is on its way.
CallIdle ==
    /\ site = "train"
    /\ call_pc = "idle"
    /\ feature = <<>>
    /\ batch = <<>>
    /\ locals = <<>>
    /\ passed = <<>>

\* No feature record is built and no forward pass runs.
FusionIdle ==
    /\ task = "atepc"
    /\ lcf = "cdm"
    /\ fw_pc = "idle"
    /\ record = <<>>
    /\ valid_ids = <<>>
    /\ context_out = <<>>
    /\ valid_output = <<>>
    /\ fw_j = 0
    /\ fw_jj = -1
    /\ cat_out = <<>>

\* Nothing of the remaining components is in use.
RestIdle ==
    /\ OptimIdle
    /\ LogIdle
    /\ CallIdle
    /\ FusionIdle
    /\ DecodeIdle

\* No DataLoader built yet.
NoSamplers == [train |-> "None", eval |-> "None"]

LoaderIdle ==
    /\ samplers = NoSamplers
    /\ passes = <<>>

\* No checkpoint written, no find_target_file call, no extractor.
NoFind == [file_type |-> "", exclude_key |-> "", find_all |-> TRUE, listing |-> {},
           result |-> {}, exc |-> "None"]

ExtractorUnbuilt ==
    /\ x_pc = "none"
    /\ x_exc = "None"
    /\ x_steps = {}
    /\ x_opt_device = "unset"
    /\ x_model_device = "unset"
    /\ fwd = <<>>

CkptIdle ==
    /\ model_name = <<"lcf_atepc">>
    /\ train_device = "cpu"
    /\ dir = {}
    /\ found = NoFind
    /\ ExtractorUnbuilt

Init ==
    /\ opt \in TrainOpts
    /\ pc = "loop"
    /\ TrainIdle
    /\ DataIdle
    /\ ExtractIdle
    /\ LoaderIdle
    /\ RestIdle
    /\ CkptIdle

\* ------------------------------------------------------------ train4atepc
trainFrame == <<trainCalls, epoch, step, global_step, batches, optimizer_steps,
                max_test_metrics, current,
                evals, lastEvalBatch, save_path, nsaves, last_saved, result,
                dataVars, extractVars, loaderVars, ckptVars, restVars>>

\* while not trainer: try: trainer = Instructor(opt)   (entering __init__)
Construct ==
    /\ pc = "loop"
    /\ attempts < MaxAttempts
    /\ pc' = "init"
    /\ ipc' = 1
    /\ attempts' = attempts + 1
    /\ exc' = "None"
    /\ UNCHANGED <<opt, built, caught, slept>>
    /\ UNCHANGED trainFrame

\* __init__ raises e: the except clause of train4atepc either catches it, sleeps and
\* loops, or lets it reach the caller.
Raise(e) ==
    /\ exc' = e
    /\ ipc' = 1
    /\ IF ExceptClause(e).caught
       THEN /\ pc' = "loop"
            /\ caught' = caught + 1
            /\ slept' = slept + ExceptClause(e).sleep
       ELSE /\ pc' = "raised"
            /\ UNCHANGED <<caught, slept>>

AtInit(s) == pc = "init" /\ ipc <= Len(InitOrder) /\ InitOrder[ipc] = s

Advance ==
    /\ ipc' = ipc + 1
    /\ pc' = IF ipc = Len(InitOrder) THEN "constructed" ELSE "init"
    /\ UNCHANGED <<caught, slept, exc>>

\* lines 31-44: the logger, and use_bert_spc reset on the shared opt.
InitLogger ==
    /\ AtInit("logger")
    /\ built' = built \cup {"logger"}
    /\ opt' = [opt EXCEPT !.use_bert_spc = FALSE]
    /\ Advance
    /\ UNCHANGED attempts
    /\ UNCHANGED trainFrame

\* lines 45-47.
InitCheckGas ==
    /\ AtInit("check_gas")
    /\ IF opt.gradient_accumulation_steps < 1
       THEN Raise("ValueError")
       ELSE Advance
    /\ UNCHANGED <<opt, built, attempts>>
    /\ UNCHANGED trainFrame

\* line 49.  With gradient_accumulation_steps = 0 reached here (the check not yet
\* made) the floor division raises ZeroDivisionError.
InitBatchSize ==
    /\ AtInit("batch_size")
    /\ IF opt.gradient_accumulation_steps = 0
       THEN /\ Raise("ZeroDivisionError")
            /\ UNCHANGED opt
       ELSE /\ opt' = [opt EXCEPT !.batch_size = opt.batch_size \div opt.gradient_accumulation_steps]
            /\ Advance
    /\ UNCHANGED <<built, attempts>>
    /\ UNCHANGED trainFrame

\* lines 51-57: seeds, and os.makedirs(model_path_to_save) when it is set.
InitSeedDirs ==
    /\ AtInit("seed_dirs")
    /\ built' = IF opt.model_path_to_save /= "" THEN built \cup {"out_dir"} ELSE built
    /\ Advance
    /\ UNCHANGED <<opt, attempts>>
    /\ UNCHANGED trainFrame

\* lines 64-65: AutoTokenizer/AutoModel.from_pretrained.  The fetch either succeeds or
\* fails with the connection error, which reaches train4atepc as the ValueError its
\* except clause names (lines 374-380).
InitPretrained ==
    /\ AtInit("pretrained")
    /\ \E ok \in BOOLEAN :
          IF ok
          THEN /\ built' = built \cup {"tokenizer", "encoder"}
               /\ Advance
          ELSE /\ Raise("ValueError")
               /\ UNCHANGED built
    /\ UNCHANGED <<opt, attempts>>
    /\ UNCHANGED trainFrame

\* lines 66-91: the training file is read; len / batch_size raises ZeroDivisionError
\* when batch_size has become 0.
InitTrainData ==
    /\ AtInit("train_data")
    /\ IF opt.batch_size = 0
       THEN /\ built' = built \cup {"train_file_read"}
            /\ Raise("ZeroDivisionError")
       ELSE /\ built' = built \cup {"train_file_read", "train_data"}
            /\ Advance
    /\ UNCHANGED <<opt, attempts>>
    /\ UNCHANGED trainFrame

\* lines 93-111.
InitEvalData ==
    /\ AtInit("eval_data")
    /\ built' = IF opt.has_test THEN built \cup {"test_file_read", "eval_data"} ELSE built
    /\ Advance
    /\ UNCHANGED <<opt, attempts>>
    /\ UNCHANGED trainFrame

\* lines 115-129.
InitModelOptimizer ==
    /\ AtInit("model_optimizer")
    /\ built' = built \cup {"model", "optimizer"}
    /\ Advance
    /\ UNCHANGED <<opt, attempts>>
    /\ UNCHANGED trainFrame

\* ------------------------------------------------------- Instructor.train
initFrame == <<ipc, built, attempts, caught, slept, exc, dataVars, extractVars, loaderVars,
               ckptVars, restVars>>

\* _save_model(opt, model, p, mode=0): the model, config and tokenizer are written
\* into directory p.
\* A save test that ignores the configured path.
PathConfiguredAlways(o) == TRUE

\* if self.opt.model_path_to_save: (lines 192 and 254); None and '' are both false.
PathConfigured(o) == o.model_path_to_save /= ""

\* One _save_model call for each metric that improved.
SaveCallsPerMetric(m, mx, o) ==
    IF PathConfigured(o)
    THEN Cardinality({k \in DOMAIN m : m[k] > mx[k]})
    ELSE 0

\* Lines 192-204: the _save_model calls of one evaluation event.
SaveCalls(m, mx, o) ==
    IF PathConfigured(o) /\ Improves(m, mx) THEN 1 ELSE 0

\* An evaluate() that steps the optimizer.
EvaluateTrainsModel(n) == n + 1

\* self.optimizer.step() of a training batch, line 172.
OptimizerStep(n) == n + 1

\* evaluate(), lines 262-342: self.model.eval(), the forward passes under
\* torch.no_grad(), and no optimizer call.
EvaluateOptimizer(n) == n

SaveModel(p) ==
    /\ nsaves' = nsaves + 1
    /\ last_saved' = p

\* return trainer.train(): lines 134-148.
TrainBeginStep ==
    /\ pc = "constructed"
    /\ pc' = "train"
    /\ trainCalls' = trainCalls + 1
    /\ max_test_metrics' = ZeroMetrics
    /\ global_step' = 0
    /\ save_path' = NoPath
    /\ epoch' = 0
    /\ step' = 0
    /\ UNCHANGED <<opt, batches, optimizer_steps, current, evals, lastEvalBatch, nsaves,
                   last_saved, result>>

TrainBegin ==
    /\ TrainBeginStep
    /\ UNCHANGED initFrame

\* One iteration of the batch loop, lines 152-237, the evaluation it may trigger
\* included; m is what evaluate() returns.
TrainBatchStep ==
    /\ pc = "train"
    /\ epoch < opt.num_epoch
    /\ LET g == StepIncrement(global_step)
           last == step + 1 = BatchesPerEpoch(opt.batch_size)
       IN
       /\ global_step' = g
       /\ batches' = batches + 1
       /\ optimizer_steps' = IF EvalDue(g, opt) /\ epoch >= opt.evaluate_begin
                             THEN EvaluateOptimizer(OptimizerStep(optimizer_steps))
                             ELSE OptimizerStep(optimizer_steps)
       /\ step' = IF last THEN 0 ELSE step + 1
       /\ epoch' = IF last THEN epoch + 1 ELSE epoch
       /\ IF EvalDue(g, opt) /\ epoch >= opt.evaluate_begin
          THEN \E m \in MetricTriples :
                 /\ current' = m
                 /\ evals' = evals + 1
                 /\ lastEvalBatch' = batches + 1
                 /\ save_path' = IF PathConfigured(opt) THEN EvalSavePath(m) ELSE save_path
                 /\ LET n == SaveCalls(m, max_test_metrics, opt)
                    IN  IF n > 0
                        THEN /\ nsaves' = nsaves + n
                             /\ last_saved' = EvalSavePath(m)
                        ELSE UNCHANGED <<nsaves, last_saved>>
                 /\ max_test_metrics' = UpdateMax(m, max_test_metrics)
          ELSE UNCHANGED <<current, evals, lastEvalBatch, save_path, nsaves, last_saved,
                          max_test_metrics>>
    /\ UNCHANGED <<opt, pc, trainCalls, result>>

TrainBatch ==
    /\ TrainBatchStep
    /\ UNCHANGED initFrame

\* After the last epoch, lines 239-260.
TrainReturnStep ==
    /\ pc = "train"
    /\ epoch = opt.num_epoch
    /\ pc' = "returned"
    /\ IF save_path /= NoPath
       THEN /\ result' = <<"path", save_path>>
            /\ UNCHANGED <<save_path, nsaves, last_saved>>
       ELSE /\ result' = <<"model">>
            /\ IF PathConfigured(opt)
               THEN /\ save_path' = FinalSavePath
                    /\ SaveModel(FinalSavePath)
               ELSE UNCHANGED <<save_path, nsaves, last_saved>>
    /\ UNCHANGED <<opt, trainCalls, epoch, step, global_step, batches, optimizer_steps,
                   max_test_metrics, current, evals, lastEvalBatch>>

TrainReturn ==
    /\ TrainReturnStep
    /\ UNCHANGED initFrame

\* ------------------------------------------------------ specifications
\* train4atepc up to its call of trainer.train().
Next ==
    \/ Construct
    \/ InitLogger
    \/ InitCheckGas
    \/ InitBatchSize
    \/ InitSeedDirs
    \/ InitPretrained
    \/ InitTrainData
    \/ InitEvalData
    \/ InitModelOptimizer
    \/ TrainBegin

Spec == Init /\ [][Next]_vars

\* Instructor.train of a constructed Instructor: __init__ has divided batch_size, reset
\* use_bert_spc and built everything.
ConstructedOpts ==
    [gradient_accumulation_steps : {1},
     batch_size : 1..MaxBatchSize,
     model_path_to_save : {"", "out"},
     log_step : 1..MaxLogStep,
     evaluate_begin : 0..MaxEvaluateBegin,
     num_epoch : {NumEpoch},
     has_test : BOOLEAN,
     use_bert_spc : {FALSE}]

BuiltByInit(o) ==
    {"logger", "tokenizer", "encoder", "train_file_read", "train_data", "model", "optimizer"}
        \cup (IF o.model_path_to_save /= "" THEN {"out_dir"} ELSE {})
        \cup (IF o.has_test THEN {"test_file_read", "eval_data"} ELSE {})

InitTrain ==
    /\ opt \in ConstructedOpts
    /\ pc = "constructed"
    /\ ipc = Len(InitOrder) + 1
    /\ built = BuiltByInit(opt)
    /\ attempts = 1
    /\ caught = 0
    /\ slept = 0
    /\ exc = "None"
    /\ trainCalls = 0
    /\ epoch = 0
    /\ step = 0
    /\ global_step = 0
    /\ batches = 0
    /\ optimizer_steps = 0
    /\ max_test_metrics = ZeroMetrics
    /\ current = ZeroMetrics
    /\ evals = 0
    /\ lastEvalBatch = 0
    /\ save_path = NoPath
    /\ nsaves = 0
    /\ last_saved = NoPath
    /\ result = <<>>
    /\ DataIdle
    /\ ExtractIdle
    /\ LoaderIdle
    /\ RestIdle
    /\ CkptIdle

NextTrain ==
    \/ TrainBegin
    \/ TrainBatch
    \/ TrainReturn

SpecTrain == InitTrain /\ [][NextTrain]_vars

\* ---------------------------------------------------- ABSADataset.__init__
SeqsUpTo(S, n) == UNION {[1..k -> S] : k \in 0..n}

SetMin(S) == CHOOSE x \in S : \A y \in S : x <= y
SetMax(S) == CHOOSE x \in S : \A y \in S : x >= y

\* A variant of LabelCheck: any gap-free label set passes, whatever its minimum.
LabelCheckAnyDense(S) ==
    IF S = {} THEN "ValueError"
    ELSE IF S /= SetMin(S)..SetMax(S) THEN "AssertionError"
    ELSE "None"

\* Lines 100-104: what the check of the label set raises ("None": it passes).
\* min() of an empty set raises ValueError; sorted(list(range(p_max - p_min + 1))) is
\* the list 0 .. p_max - p_min.
LabelCheck(S) ==
    IF S = {} THEN "ValueError"
    ELSE IF SetMin(S) < 0 THEN "RuntimeError"
    ELSE IF S /= 0..(SetMax(S) - SetMin(S)) THEN "AssertionError"
    ELSE "None"

\* A variant of InferredDim: the largest label taken for the number of labels.
InferredDimMax(S) == SetMax(S)

\* Line 105: len(polarities_set).
InferredDim(S) == Cardinality(S)

dataFrame == <<trainVars, extractVars, loaderVars, ckptVars, restVars>>

\* Lines 45-52: the file is loaded and the locals are initialised.
DsLoad ==
    /\ ds_pc = "idle"
    /\ ds_pc' = "reading"
    /\ ds_i' = 0
    /\ polarities_set' = {}
    /\ all_data' = <<>>
    /\ UNCHANGED <<ds_labels, polarities_dim, dataset, ds_exc>>
    /\ UNCHANGED dataFrame

\* One iteration of the loop over the records, lines 54-94.
DsReadRecord ==
    /\ ds_pc = "reading"
    /\ ds_i < Len(ds_labels)
    /\ ds_i' = ds_i + 1
    /\ polarities_set' = polarities_set \cup {ds_labels[ds_i + 1]}
    /\ all_data' = Append(all_data, ds_labels[ds_i + 1])
    /\ UNCHANGED <<ds_pc, ds_labels, polarities_dim, dataset, ds_exc>>
    /\ UNCHANGED dataFrame

\* After the loop, lines 99-107: the label check, then polarities_dim and self.data.
DsFinish ==
    /\ ds_pc = "reading"
    /\ ds_i = Len(ds_labels)
    /\ ds_exc' = LabelCheck(polarities_set)
    /\ IF LabelCheck(polarities_set) = "None"
       THEN /\ polarities_dim' = InferredDim(polarities_set)
            /\ dataset' = <<all_data>>
            /\ ds_pc' = "built"
       ELSE /\ ds_pc' = "failed"
            /\ UNCHANGED <<polarities_dim, dataset>>
    /\ UNCHANGED <<ds_labels, ds_i, polarities_set, all_data>>
    /\ UNCHANGED dataFrame

InitData ==
    /\ TrainerUnused
    /\ ExtractIdle
    /\ LoaderIdle
    /\ RestIdle
    /\ CkptIdle
    /\ ds_pc = "idle"
    /\ ds_labels \in SeqsUpTo(-1..MaxLabel, MaxRecords)
    /\ ds_i = 0
    /\ polarities_set = {}
    /\ all_data = <<>>
    /\ polarities_dim = ConfiguredPolaritiesDim
    /\ dataset = <<>>
    /\ ds_exc = "None"

NextData ==
    \/ DsLoad
    \/ DsReadRecord
    \/ DsFinish

SpecData == InitData /\ [][NextData]_vars

\* ------------------------------------------------ AspectExtractor._extract
Tags == {"O", "B-ASP", "I-ASP"}

\* 'ASP' in l
HasASP(l) == l \in {"B-ASP", "I-ASP"}

\* ['O'] * n and [SENTIMENT_PADDING] * n
IOB_PADDING(n) == [i \in 1..n |-> "O"]
POLARITY_PADDING(n) == [i \in 1..n |-> SENTIMENT_PADDING]

\* Lines 213-219: the polarity mask of the decoded tags.
PolarityOf(tags) ==
    [i \in 1..Len(tags) |-> IF HasASP(tags[i]) THEN -SENTIMENT_PADDING ELSE SENTIMENT_PADDING]

\* pred_iobs.count('B-ASP')
CountB(tags) == Cardinality({i \in 1..Len(tags) : tags[i] = "B-ASP"})

\* The test of lines 231-232 at iob_idx = k - 1 (k counts from 1).
IsBoundary(tags, k) ==
    \/ tags[k] = "B-ASP" /\ ~HasASP(tags[k + 1])
    \/ tags[k] = "I-ASP" /\ ~HasASP(tags[k + 1])

\* The first k in range(len - 1) (counted from 1) at which the loop of lines 230-237
\* breaks; 0 when it runs to its end.
FirstBoundary(tags) ==
    LET ks == {k \in 1..(Len(tags) - 1) : IsBoundary(tags, k)}
    IN  IF ks = {} THEN 0 ELSE SetMin(ks)

\* a[:k] + b[k:]
Splice(a, b, k) == [i \in 1..Len(a) |-> IF i <= k THEN a[i] ELSE b[i]]

extractFrame == <<trainVars, dataVars, loaderVars, ckptVars, restVars>>
inferVars == <<map_arg, sentiment_map, sentiments, polarity_res, ex_exc>>

\* Lines 115-118, called on a constructed extractor that is not extracting.
SetSentimentMap ==
    /\ ex_pc = "idle"
    /\ \E sm \in SentimentMaps :
          /\ map_arg' = sm
          /\ sentiment_map' = StoredMap(sm)
    /\ UNCHANGED <<ex_pc, decoded, pred_iobs, polarity, asp_idx, asp_num, res,
                   sentiments, polarity_res, ex_exc>>
    /\ UNCHANGED extractFrame

\* Lines 199-226: the tags are decoded, the polarity mask and the counters are set up.
ExtractBegin ==
    /\ ex_pc = "idle"
    /\ ex_pc' = "split"
    /\ pred_iobs' = decoded
    /\ polarity' = PolarityOf(decoded)
    /\ asp_idx' = 0
    /\ asp_num' = CountB(decoded)
    /\ res' = <<>>
    /\ UNCHANGED decoded
    /\ UNCHANGED inferVars
    /\ UNCHANGED extractFrame

\* One iteration of while asp_idx < asp_num, lines 227-240.
ExtractSplit ==
    /\ ex_pc = "split"
    /\ asp_idx < asp_num
    /\ LET k == FirstBoundary(pred_iobs)
           n == Len(pred_iobs)
           _pred_iobs == IF k = 0 THEN pred_iobs ELSE Splice(pred_iobs, IOB_PADDING(n), k)
           _polarity == IF k = 0 THEN polarity ELSE Splice(polarity, POLARITY_PADDING(n), k)
       IN
       /\ pred_iobs' = IF k = 0 THEN pred_iobs ELSE Splice(IOB_PADDING(n), pred_iobs, k)
       /\ polarity' = IF k = 0 THEN polarity ELSE Splice(POLARITY_PADDING(n), polarity, k)
       /\ res' = Append(res, [iobs |-> _pred_iobs, polarity |-> _polarity])
    /\ asp_idx' = asp_idx + 1
    /\ UNCHANGED <<ex_pc, decoded, asp_num>>
    /\ UNCHANGED inferVars
    /\ UNCHANGED extractFrame

\* Line 241.
ExtractReturn ==
    /\ ex_pc = "split"
    /\ asp_idx >= asp_num
    /\ ex_pc' = "returned"
    /\ UNCHANGED <<decoded, pred_iobs, polarity, asp_idx, asp_num, res>>
    /\ UNCHANGED inferVars
    /\ UNCHANGED extractFrame

\* The examples _infer classifies (line 248): one per extraction result, carrying
\* that result's tags and polarity mask.
ApcExamples(extraction_res) == extraction_res

\* Lines 306-310: torch.where(polarity[0] > 0), positions counted from 0.
AspectPositions(pol) == {i - 1 : i \in {h \in 1..Len(pol) : pol[h] > 0}}

\* _infer reading the first example before its loop.
InferResultFirstExample(examples, s, sents) ==
    IF examples = <<>> THEN <<"IndexError">>
    ELSE IF \E k \in 1..Len(examples) : s[k] \notin DOMAIN sents THEN <<"KeyError">>
    ELSE <<"list", [k \in 1..Len(examples) |->
                      [position |-> AspectPositions(examples[k].polarity),
                       sentiment |-> sents[s[k]]]]>>

\* Lines 281-318: the loop of _infer over the examples, s[k] being the class the
\* model predicts for the k-th (line 305); sentiments[sent] raises KeyError for a
\* class the dictionary lacks (line 314).
InferResult(examples, s, sents) ==
    IF \E k \in 1..Len(examples) : s[k] \notin DOMAIN sents THEN <<"KeyError">>
    ELSE <<"list", [k \in 1..Len(examples) |->
                      [position |-> AspectPositions(examples[k].polarity),
                       sentiment |-> sents[s[k]]]]>>

\* Lines 140-142 and _infer (243-319): extract_aspect after _extract returned.
ExtractInfer ==
    /\ ex_pc = "returned"
    /\ \E pred_sentiment \in BOOLEAN :
          IF pred_sentiment
          THEN LET examples == ApcExamples(res)
                   sents == Sentiments(sentiment_map, polarities_dim)
               IN  \E s \in [1..Len(examples) -> 0..(polarities_dim - 1)] :
                       LET r == InferResult(examples, s, sents)
                       IN  /\ sentiments' = sents
                           /\ IF r[1] = "list"
                              THEN /\ polarity_res' = r
                                   /\ ex_pc' = "done"
                                   /\ UNCHANGED ex_exc
                              ELSE /\ polarity_res' = <<>>
                                   /\ ex_pc' = "raised"
                                   /\ ex_exc' = r[1]
          ELSE /\ polarity_res' = <<"None">>
               /\ ex_pc' = "done"
               /\ UNCHANGED <<sentiments, ex_exc>>
    /\ UNCHANGED <<decoded, pred_iobs, polarity, asp_idx, asp_num, res, map_arg, sentiment_map>>
    /\ UNCHANGED extractFrame

\* An extractor constructed with some sentiment_map argument (line 113) and some
\* opt.polarities_dim, about to extract from one sentence.
InitExtract ==
    /\ TrainerUnused
    /\ ds_pc = "idle"
    /\ ds_labels = <<>>
    /\ ds_i = 0
    /\ polarities_set = {}
    /\ all_data = <<>>
    /\ polarities_dim \in 2..MaxPolaritiesDim
    /\ dataset = <<>>
    /\ ds_exc = "None"
    /\ ex_pc = "idle"
    /\ decoded \in SeqsUpTo(Tags, MaxTokens)
    /\ pred_iobs = <<>>
    /\ polarity = <<>>
    /\ asp_idx = 0
    /\ asp_num = 0
    /\ res = <<>>
    /\ map_arg \in SentimentMaps
    /\ sentiment_map = StoredMap(map_arg)
    /\ sentiments = EmptyMap
    /\ polarity_res = <<>>
    /\ ex_exc = "None"
    /\ LoaderIdle
    /\ RestIdle
    /\ CkptIdle

NextExtract ==
    \/ SetSentimentMap
    \/ ExtractBegin
    \/ ExtractSplit
    \/ ExtractReturn
    \/ ExtractInfer

SpecExtract == InitExtract /\ [][NextExtract]_vars

\* ------------------------------------------------ the DataLoaders of Instructor
\* The permutations of 1..n.
Perms(n) == {f \in [1..n -> 1..n] : \A i, j \in 1..n : i # j => f[i] # f[j]}

\* The orders in which a sampler of the given class yields the indices of a dataset
\* of n examples: SequentialSampler yields range(n), RandomSampler any permutation.
SamplerOrders(kind, n) ==
    IF kind = "SequentialSampler" THEN {[i \in 1..n |-> i]} ELSE Perms(n)

\* train_sampler = SequentialSampler(train_data)
TrainSampler == "SequentialSampler"
\* eval_sampler = RandomSampler(eval_data)
EvalSampler == "RandomSampler"

loaderFrame == <<trainVars, dataVars, extractVars, ckptVars, restVars>>

\* Instructor.__init__, lines 90-91 and 110-111.
BuildLoaders ==
    /\ samplers = NoSamplers
    /\ samplers' = [train |-> TrainSampler, eval |-> EvalSampler]
    /\ UNCHANGED passes
    /\ UNCHANGED loaderFrame

\* One epoch of the batch loop: enumerate(self.train_dataloader), lines 150-152.
TrainPass ==
    /\ samplers # NoSamplers
    /\ Len(passes) < MaxPasses
    /\ \E order \in SamplerOrders(samplers.train, NumTrainExamples) :
          passes' = Append(passes, [split |-> "train", order |-> order])
    /\ UNCHANGED samplers
    /\ UNCHANGED loaderFrame

\* One evaluate() call: enumerate(self.eval_dataloader), line 272.
EvalPass ==
    /\ samplers # NoSamplers
    /\ Len(passes) < MaxPasses
    /\ \E order \in SamplerOrders(samplers.eval, NumEvalExamples) :
          passes' = Append(passes, [split |-> "eval", order |-> order])
    /\ UNCHANGED samplers
    /\ UNCHANGED loaderFrame

InitLoader ==
    /\ TrainerUnused
    /\ DataIdle
    /\ ExtractIdle
    /\ LoaderIdle
    /\ RestIdle
    /\ CkptIdle

NextLoader ==
    \/ BuildLoaders
    \/ TrainPass
    \/ EvalPass

SpecLoader == InitLoader /\ [][NextLoader]_vars

\* ------------------------------------------- _save_model and find_target_file
\* The suffixes _save_model (mode 0) writes, and what AspectExtractor looks for.
Suffixes == {".model", ".config", ".tokenizer"}
FileTypes == Suffixes \cup {".state_dict"}

\* opt.model_name is a free string; it is kept as a sequence of pieces so that
\* `x in name` is membership among the pieces.
ModelNames == {<<"lcf_atepc">>, <<"bert_base">>, <<"lcf", ".model", "_v2">>, <<"LCF", ".CONFIG">>}

Devices == {"cpu", "cuda:0"}

\* str.lower() on a name.
LowerPiece(t) == CASE t = "LCF" -> "lcf" [] t = ".CONFIG" -> ".config" [] OTHER -> t
Lower(name) == [i \in 1..Len(name) |-> LowerPiece(name[i])]

\* key in name
Contains(name, key) == \E i \in 1..Len(name) : name[i] = key

\* save_path + args_to_save.model_name + suffix, relative to save_path.
FileName(mname, suffix) == Append(mname, suffix)

\* Lines 33-36: the files of the directory that find_target_file selects.
Matching(listing, file_type, exclude_key) ==
    {f \in listing : /\ Contains(Lower(f.name), file_type)
                     /\ ~(exclude_key # "" /\ Contains(Lower(f.name), exclude_key))}

\* Lines 20-38 for a directory: with find_all the list of the matching paths, else
\* the first of them in os.listdir order (any of them), IndexError if there is none.
FindTargetFile(listing, file_type, exclude_key, find_all) ==
    LET ms == Matching(listing, file_type, exclude_key)
        call == [file_type |-> file_type, exclude_key |-> exclude_key, find_all |-> find_all,
                 listing |-> listing]
    IN  IF find_all THEN {call @@ [result |-> ms, exc |-> "None"]}
        ELSE IF ms = {} THEN {call @@ [result |-> {}, exc |-> "IndexError"]}
        ELSE {call @@ [result |-> {f}, exc |-> "None"] : f \in ms}

\* Lines 354-356: the three files of a checkpoint; the model is pickled after
\* model_to_save.cpu(), the options with their device field.
CheckpointFiles(mname, device) ==
    {[name |-> FileName(mname, ".model"), kind |-> "model", device |-> "cpu"],
     [name |-> FileName(mname, ".config"), kind |-> "config", device |-> device],
     [name |-> FileName(mname, ".tokenizer"), kind |-> "tokenizer", device |-> "None"]}

\* open(path, 'wb') replaces a file of the same name.
WriteFiles(d, files) ==
    {f \in d : \A g \in files : g.name # f.name} \cup files

ckptFrame == <<trainVars, dataVars, extractVars, loaderVars, restVars>>
extractorVars == <<x_pc, x_exc, x_steps, x_opt_device, x_model_device, fwd>>

\* _save_model(opt, model, save_path, mode=0), lines 344-370; line 370 moves the
\* model back to opt.device.
SaveModelFiles ==
    /\ dir' = WriteFiles(dir, CheckpointFiles(model_name, train_device))
    /\ UNCHANGED <<model_name, train_device, found>>
    /\ UNCHANGED extractorVars
    /\ UNCHANGED ckptFrame

\* find_target_file(dir, file_type, exclude_key, find_all) on the checkpoint directory.
FindFiles ==
    /\ \E file_type \in FileTypes, exclude_key \in {"", ".model"}, find_all \in BOOLEAN :
          found' \in FindTargetFile(dir, file_type, exclude_key, find_all)
    /\ UNCHANGED <<model_name, train_device, dir>>
    /\ UNCHANGED extractorVars
    /\ UNCHANGED ckptFrame

InitFiles ==
    /\ TrainerUnused
    /\ DataIdle
    /\ ExtractIdle
    /\ LoaderIdle
    /\ RestIdle
    /\ model_name \in ModelNames
    /\ train_device \in Devices
    /\ dir = {}
    /\ found = NoFind
    /\ ExtractorUnbuilt

NextFiles ==
    \/ SaveModelFiles
    \/ FindFiles

SpecFiles == InitFiles /\ [][NextFiles]_vars

\* --------------------------------- AspectExtractor.__init__, to, cpu, cuda
\* The steps of __init__ after its loading block, in order: lines 81-83, 84-86,
\* 88-90, 92-94, 96, 98-109, 111-113.
LateSteps == <<"processor", "seed", "print_config", "check_gas", "batch_size", "optimizer",
               "sentiment_map">>

\* The steps that have run when step k of LateSteps raises.
StepsBefore(k) == {LateSteps[i] : i \in 1..(k - 1)}
AllLateSteps == {LateSteps[i] : i \in 1..Len(LateSteps)}

\* The first element of a list find_target_file returned: any file of the set, as
\* os.listdir gives no order.
First(paths) == paths

\* A file disappears from the checkpoint directory (an incomplete checkpoint).
DropArtifact ==
    /\ \E f \in dir : dir' = dir \ {f}
    /\ UNCHANGED <<model_name, train_device, found>>
    /\ UNCHANGED extractorVars
    /\ UNCHANGED ckptFrame

\* A state-dict file is put beside the checkpoint (line 353 used to write one).
PutStateDict ==
    /\ dir' = WriteFiles(dir, {[name |-> FileName(model_name, ".state_dict"),
                                kind |-> "state_dict", device |-> "cpu"]})
    /\ UNCHANGED <<model_name, train_device, found>>
    /\ UNCHANGED extractorVars
    /\ UNCHANGED ckptFrame

\* __init__ raised e after the late steps in ran.
LoadFailed(e, ran) ==
    /\ x_pc' = "failed"
    /\ x_exc' = e
    /\ x_steps' = ran
    /\ UNCHANGED <<x_opt_device, x_model_device>>

\* AspectExtractor(model_arg) with model_arg the checkpoint directory, lines 53-113.
\* Inside the try block every exception becomes FileNotFoundError (lines 75-79):
\* config_path[0] on an empty list, self.num_labels read at line 62 before it is
\* set, a failing BertTokenizer.from_pretrained. torch.load gives the model on the
\* device it was pickled on; nothing moves it to opt.device.
LoadFromPath ==
    /\ x_pc = "none"
    /\ LET state_dict_path == Matching(dir, ".state_dict", "")
           model_path == Matching(dir, ".model", "")
           tokenizer_path == Matching(dir, ".tokenizer", "")
           config_path == Matching(dir, ".config", "")
       IN
       /\ found' \in FindTargetFile(dir, ".config", "", TRUE)
       /\ IF config_path = {} \/ state_dict_path # {}
          THEN LoadFailed("FileNotFoundError", {})
          ELSE \E c \in First(config_path), tokenizer_ok \in BOOLEAN :
                 IF tokenizer_path = {} /\ ~tokenizer_ok
                 THEN LoadFailed("FileNotFoundError", {})
                 ELSE IF model_path = {}
                 THEN /\ x_pc' = "failed"
                      /\ x_exc' = "AttributeError"
                      /\ x_steps' = StepsBefore(6)
                      /\ x_opt_device' = c.device
                      /\ UNCHANGED x_model_device
                 ELSE \E m \in First(model_path) :
                        /\ x_pc' = "loaded"
                        /\ x_steps' = AllLateSteps
                        /\ x_opt_device' = c.device
                        /\ x_model_device' = m.device
                        /\ UNCHANGED x_exc
    /\ UNCHANGED <<model_name, train_device, dir, fwd>>
    /\ UNCHANGED ckptFrame

\* AspectExtractor(model_arg) with model_arg the tuple train() returned, lines 48-51:
\* the trainer's model, which resides on the trainer's opt.device (trainer lines 116
\* and 370), and the trainer's opt.
LoadFromTraining ==
    /\ x_pc = "none"
    /\ x_pc' = "loaded"
    /\ x_steps' = AllLateSteps
    /\ x_opt_device' = train_device
    /\ x_model_device' = train_device
    /\ UNCHANGED <<model_name, train_device, dir, found, x_exc, fwd>>
    /\ UNCHANGED ckptFrame

\* model.to(device): None moves nothing.
ModelTo(current_device, device) == IF device = "None" THEN current_device ELSE device

\* to(device=None), lines 120-122.
To ==
    /\ x_pc = "loaded"
    /\ \E device \in Devices \cup {"None"} :
          /\ x_opt_device' = device
          /\ x_model_device' = ModelTo(x_model_device, device)
    /\ UNCHANGED <<model_name, train_device, dir, found, x_pc, x_exc, x_steps, fwd>>
    /\ UNCHANGED ckptFrame

\* cpu(), lines 124-126.
Cpu ==
    /\ x_pc = "loaded"
    /\ x_opt_device' = "cpu"
    /\ x_model_device' = ModelTo(x_model_device, "cpu")
    /\ UNCHANGED <<model_name, train_device, dir, found, x_pc, x_exc, x_steps, fwd>>
    /\ UNCHANGED ckptFrame

\* cuda(device='cuda:0'), lines 128-130.
Cuda ==
    /\ x_pc = "loaded"
    /\ \E device \in Devices \ {"cpu"} :
          /\ x_opt_device' = device
          /\ x_model_device' = ModelTo(x_model_device, device)
    /\ UNCHANGED <<model_name, train_device, dir, found, x_pc, x_exc, x_steps, fwd>>
    /\ UNCHANGED ckptFrame

\* tensor.to(self.opt.device) on a tensor built on the CPU: None leaves it there.
InputDevice(device) == IF device = "None" THEN "cpu" ELSE device

\* A forward pass of _extract (lines 183-197) or _infer (lines 284-303): the inputs
\* are moved to opt.device and given to the model.
Forward ==
    /\ x_pc = "loaded"
    /\ fwd' = <<InputDevice(x_opt_device), x_model_device>>
    /\ UNCHANGED <<model_name, train_device, dir, found, x_pc, x_exc, x_steps, x_opt_device,
                   x_model_device>>
    /\ UNCHANGED ckptFrame

\* A trainer whose model name holds no file type, on either device, and no
\* extractor yet.
InitLoad ==
    /\ TrainerUnused
    /\ DataIdle
    /\ ExtractIdle
    /\ LoaderIdle
    /\ RestIdle
    /\ model_name \in {n \in ModelNames : \A t \in FileTypes : ~Contains(Lower(n), t)}
    /\ train_device \in Devices
    /\ dir = {}
    /\ found = NoFind
    /\ ExtractorUnbuilt

NextLoad ==
    \/ SaveModelFiles
    \/ DropArtifact
    \/ PutStateDict
    \/ LoadFromPath
    \/ LoadFromTraining
    \/ To
    \/ Cpu
    \/ Cuda
    \/ Forward

SpecLoad == InitLoad /\ [][NextLoad]_vars

\* ------------------------------------------------------------ the optimizer
baseVars == <<trainVars, dataVars, extractVars, loaderVars, ckptVars>>

BaseIdle ==
    /\ TrainerUnused
    /\ DataIdle
    /\ ExtractIdle
    /\ samplers = NoSamplers
    /\ passes = <<>>
    /\ CkptIdle

\* Names of model parameters, as sequences of pieces.
ParamNames == {<<"dense", "weight">>, <<"dense", "bias">>, <<"LayerNorm", "weight">>,
               <<"LayerNorm", "bias">>, <<"classifier", "weight">>}

\* no_decay = ['bias', 'LayerNorm.bias', 'LayerNorm.weight'] and the test
\* any(nd in n for nd in no_decay).
AnyNoDecay(n) ==
    \/ Contains(n, "bias")
    \/ \E i \in 1..(Len(n) - 1) : n[i] = "LayerNorm" /\ n[i + 1] \in {"bias", "weight"}

\* optimizer_grouped_parameters: trainer lines 119-124, extractor lines 100-105.
GroupedParameters(names, l2) ==
    <<[params |-> {n \in names : ~AnyNoDecay(n)}, weight_decay |-> l2],
      [params |-> {n \in names : AnyNoDecay(n)}, weight_decay |-> l2]>>

optimFrame == <<baseVars, decodeVars, fusionVars, callVars, logVars>>

\* Trainer lines 117-127, extractor lines 98-109.
BuildOptimizer ==
    /\ param_groups = <<>>
    /\ param_groups' = GroupedParameters(param_names, l2reg)
    /\ UNCHANGED <<param_names, l2reg>>
    /\ UNCHANGED optimFrame

InitOptim ==
    /\ BaseIdle
    /\ LogIdle
    /\ CallIdle
    /\ FusionIdle
    /\ DecodeIdle
    /\ param_names \in SUBSET ParamNames \ {{}}
    /\ l2reg \in 0..MaxL2Reg
    /\ param_groups = <<>>

NextOptim ==
    \/ BuildOptimizer

SpecOptim == InitOptim /\ [][NextOptim]_vars

\* ------------------------------------- the tag decoding loop of _extract
\* self.label_list of ATEPCProcessor.get_labels().
LabelList == <<"O", "B-ASP", "I-ASP", "[CLS]", "[SEP]">>

\* label_map = {i: label for i, label in enumerate(self.label_list, 1)} and
\* label_map.get(id, 'O'), lines 181 and 210.
LabelOf(id) == IF id \in 1..Len(LabelList) THEN LabelList[id] ELSE "O"

\* A decoding loop that never stops at the token count.
DecodeNeverFull(iobs, n) == FALSE

\* elif len(pred_iobs) == len(all_tokens[0]), line 207.
DecodeFull(iobs, n) == Len(iobs) = n

decodeFrame == <<baseVars, optimVars, fusionVars, callVars, logVars>>

\* Lines 199-203: the logits are reduced to label ids and the loop starts.
DecodeBegin ==
    /\ dec_pc = "idle"
    /\ dec_pc' = "loop"
    /\ dec_j' = 0
    /\ dec_iobs' = <<>>
    /\ UNCHANGED <<n_tokens, ate_logits>>
    /\ UNCHANGED decodeFrame

\* One iteration of for j, m in enumerate(label_ids[0]), lines 204-210; label_ids[0]
\* and ate_logits[0] both have max_seq_len positions, counted from 0.
DecodeIter ==
    /\ dec_pc = "loop"
    /\ dec_j < Len(ate_logits)
    /\ IF dec_j = 0
       THEN /\ dec_j' = dec_j + 1
            /\ UNCHANGED <<dec_pc, dec_iobs>>
       ELSE IF DecodeFull(dec_iobs, n_tokens)
       THEN /\ dec_pc' = "done"
            /\ UNCHANGED <<dec_j, dec_iobs>>
       ELSE /\ dec_iobs' = Append(dec_iobs, LabelOf(ate_logits[dec_j + 1]))
            /\ dec_j' = dec_j + 1
            /\ UNCHANGED dec_pc
    /\ UNCHANGED <<n_tokens, ate_logits>>
    /\ UNCHANGED decodeFrame

\* The loop runs out of positions.
DecodeExhausted ==
    /\ dec_pc = "loop"
    /\ dec_j = Len(ate_logits)
    /\ dec_pc' = "done"
    /\ UNCHANGED <<dec_j, n_tokens, ate_logits, dec_iobs>>
    /\ UNCHANGED decodeFrame

\* A sentence of n_tokens words and the label ids the tag head gives to the
\* max_seq_len positions.
InitDecode ==
    /\ BaseIdle
    /\ LogIdle
    /\ CallIdle
    /\ FusionIdle
    /\ OptimIdle
    /\ dec_pc = "idle"
    /\ dec_j = 0
    /\ n_tokens \in 0..MaxTokens
    /\ ate_logits \in SeqsUpTo(0..Len(LabelList), MaxSeqLen) \ {<<>>}
    /\ dec_iobs = <<>>

NextDecode ==
    \/ DecodeBegin
    \/ DecodeIter
    \/ DecodeExhausted

SpecDecode == InitDecode /\ [][NextDecode]_vars

\* --------------------- the feature record and the forward pass of the model
Tasks == {"apc", "atepc"}
LcfModes == {"cdm", "cdw", "fusion"}

\* The fusion vectors the feature encoder computed for the example.
PreparedInputs == [lcf_cdm_vec |-> "CDM", lcf_cdw_vec |-> "CDW"]

\* ABSADataset.input_colses[LCF_BERT_LARGE].
InputColses == {"text_bert_indices", "text_raw_bert_indices", "lcf_vec"}

\* The record of ABSADataset.__init__: lcf_vec is the CDM vector when opt.lcf is
\* 'cdm' and the CDW vector otherwise.
AbsaData(l) ==
    LET lcf_vec == IF l = "cdm" THEN PreparedInputs.lcf_cdm_vec
                   ELSE PreparedInputs.lcf_cdw_vec
    IN  [lcf_vec |-> IF "lcf_vec" \in InputColses THEN lcf_vec ELSE "0"]

\* The last two tensors of the TensorDataset of Instructor.__init__.
TrainData ==
    [lcf_cdm_vec |-> PreparedInputs.lcf_cdm_vec, lcf_cdw_vec |-> PreparedInputs.lcf_cdw_vec]

\* The fusion vectors a feature record holds.
Retained(r) == {r[f] : f \in DOMAIN r} \cap {"CDM", "CDW"}

fusionFrame == <<baseVars, optimVars, decodeVars, callVars, logVars>>

\* The feature record of the example is built.
BuildFeatures ==
    /\ fw_pc = "idle"
    /\ fw_pc' = "features"
    /\ record' = IF task = "apc" THEN AbsaData(lcf) ELSE TrainData
    /\ UNCHANGED <<task, lcf, valid_ids, context_out, valid_output, fw_j, fw_jj, cat_out>>
    /\ UNCHANGED fusionFrame

\* A compression that copies every position.
EveryPositionValid(v) == TRUE

\* if valid_ids[i][j].item() == 1
IsValid(v) == v = 1

\* LCF_ATEPC_LARGE.forward, lines 73-75: the encoder ran, the output starts as
\* zeros and jj as -1.
CompressBegin ==
    /\ task = "atepc"
    /\ fw_pc = "features"
    /\ fw_pc' = "compress"
    /\ valid_output' = [k \in 1..Len(context_out) |-> 0]
    /\ fw_j' = 0
    /\ fw_jj' = -1
    /\ UNCHANGED <<task, lcf, record, valid_ids, context_out, cat_out>>
    /\ UNCHANGED fusionFrame

\* One iteration of for j in range(max_len), lines 76-79; positions count from 0.
CompressIter ==
    /\ fw_pc = "compress"
    /\ fw_j < Len(context_out)
    /\ IF IsValid(valid_ids[fw_j + 1])
       THEN /\ fw_jj' = fw_jj + 1
            /\ valid_output' = [valid_output EXCEPT ![fw_jj + 2] = context_out[fw_j + 1]]
       ELSE UNCHANGED <<fw_jj, valid_output>>
    /\ fw_j' = fw_j + 1
    /\ UNCHANGED <<task, lcf, fw_pc, record, valid_ids, context_out, cat_out>>
    /\ UNCHANGED fusionFrame

\* The loop is over.
CompressEnd ==
    /\ fw_pc = "compress"
    /\ fw_j = Len(context_out)
    /\ fw_pc' = "local"
    /\ UNCHANGED <<task, lcf, record, valid_ids, context_out, valid_output, fw_j, fw_jj,
                   cat_out>>
    /\ UNCHANGED fusionFrame

\* A representation: the encoder it comes from, the fusion vector it was multiplied
\* by and the blocks it passed after that.
GlobalContextOut == [of |-> "global", vec |-> "none", blocks |-> <<>>]
Mul(vec) == [of |-> "local", vec |-> vec, blocks |-> <<>>]
SA(x) == [x EXCEPT !.blocks = Append(@, "SA")]

\* LCF_ATEPC_LARGE.forward, lines 97-111: the argument of torch.cat in each lcf
\* mode. opt.lcf is one of the three modes, for which the tests 'cdm' in opt.lcf,
\* 'cdw' in opt.lcf and 'fusion' in opt.lcf tell the same as equality.
AtepcCat(l, r) ==
    IF l = "cdm" THEN <<GlobalContextOut, SA(Mul(r.lcf_cdm_vec))>>
    ELSE IF l = "cdw" THEN <<GlobalContextOut, SA(Mul(r.lcf_cdw_vec))>>
    ELSE <<GlobalContextOut, Mul(r.lcf_cdw_vec), Mul(r.lcf_cdm_vec)>>

\* LCF_BERT_LARGE.forward, lines 39-43: lcf_matrix is inputs[2], the lcf_vec of the
\* record.
ApcCat(r) == <<SA(Mul(r.lcf_vec)), GlobalContextOut>>

\* The local branch of LCF_ATEPC_LARGE.forward.
AtepcLocal ==
    /\ task = "atepc"
    /\ fw_pc = "local"
    /\ fw_pc' = "done"
    /\ cat_out' = AtepcCat(lcf, record)
    /\ UNCHANGED <<task, lcf, record, valid_ids, context_out, valid_output, fw_j, fw_jj>>
    /\ UNCHANGED fusionFrame

\* LCF_BERT_LARGE.forward.
ApcForward ==
    /\ task = "apc"
    /\ fw_pc = "features"
    /\ fw_pc' = "done"
    /\ cat_out' = ApcCat(record)
    /\ UNCHANGED <<task, lcf, record, valid_ids, context_out, valid_output, fw_j, fw_jj>>
    /\ UNCHANGED fusionFrame

\* One example in one lcf mode; for the token model also its valid_ids and the
\* encoder output of its max_seq_len positions.
InitFusion ==
    /\ BaseIdle
    /\ LogIdle
    /\ CallIdle
    /\ OptimIdle
    /\ DecodeIdle
    /\ task \in Tasks
    /\ lcf \in LcfModes
    /\ fw_pc = "idle"
    /\ record = <<>>
    /\ \E n \in 1..MaxSeqLen :
          IF task = "atepc"
          THEN /\ valid_ids \in [1..n -> {0, 1}]
               /\ context_out \in [1..n -> 0..MaxVec]
          ELSE /\ valid_ids = <<>>
               /\ context_out = <<>>
    /\ valid_output = <<>>
    /\ fw_j = 0
    /\ fw_jj = -1
    /\ cat_out = <<>>

NextFusion ==
    \/ BuildFeatures
    \/ CompressBegin
    \/ CompressIter
    \/ CompressEnd
    \/ AtepcLocal
    \/ ApcForward

SpecFusion == InitFusion /\ [][NextFusion]_vars

\* ------------------------- from the feature record to the model's arguments
Sites == {"train", "evaluate", "_extract", "_infer"}

\* The first three tensors of TensorDataset(...) at each site; the tensors after
\* them are in the order of the unpacking at every site.
DatasetOrder(s) ==
    IF s \in {"train", "evaluate"}
    THEN <<"input_ids_spc", "segment_ids", "input_mask">>
    ELSE <<"input_ids_spc", "input_mask", "segment_ids">>

\* The first three names the batch is unpacked to at each site.
UnpackOrder(s) ==
    IF s = "_extract"
    THEN <<"input_ids_spc", "input_mask", "segment_ids">>
    ELSE <<"input_ids_spc", "segment_ids", "input_mask">>

\* forward(self, input_ids_spc, token_type_ids=None, attention_mask=None, ...): the
\* local name each site passes for the two parameters; _extract passes them by
\* position, the other sites by keyword.
CallArgs(s) == [token_type_ids |-> "segment_ids", attention_mask |-> "input_mask"]

callFrame == <<baseVars, optimVars, decodeVars, fusionVars, logVars>>

\* The tensors of the features go into the TensorDataset and one batch is drawn.
BuildDataset ==
    /\ call_pc = "idle"
    /\ call_pc' = "dataset"
    /\ batch' = [k \in 1..3 |-> feature[DatasetOrder(site)[k]]]
    /\ UNCHANGED <<site, feature, locals, passed>>
    /\ UNCHANGED callFrame

\* The batch is unpacked to local names.
Unpack ==
    /\ call_pc = "dataset"
    /\ call_pc' = "unpacked"
    /\ locals' = LET names == UnpackOrder(site)
                 IN  [n \in {names[k] : k \in 1..3} |->
                         batch[CHOOSE k \in 1..3 : names[k] = n]]
    /\ UNCHANGED <<site, feature, batch, passed>>
    /\ UNCHANGED callFrame

\* self.model(...) is called.
CallModel ==
    /\ call_pc = "unpacked"
    /\ call_pc' = "called"
    /\ passed' = [input_ids_spc |-> locals["input_ids_spc"],
                  token_type_ids |-> locals[CallArgs(site).token_type_ids],
                  attention_mask |-> locals[CallArgs(site).attention_mask]]
    /\ UNCHANGED <<site, feature, batch, locals>>
    /\ UNCHANGED callFrame

\* One feature record of at most MaxSeqLen positions at one of the sites.
InitCall ==
    /\ BaseIdle
    /\ LogIdle
    /\ OptimIdle
    /\ DecodeIdle
    /\ FusionIdle
    /\ site \in Sites
    /\ call_pc = "idle"
    /\ \E n \in 1..MaxSeqLen :
          feature \in [input_ids_spc : {[k \in 1..n |-> 1]},
                       input_mask : [1..n -> {0, 1}],
                       segment_ids : [1..n -> {0, 1}]]
    /\ batch = <<>>
    /\ locals = <<>>
    /\ passed = <<>>

NextCall ==
    \/ BuildDataset
    \/ Unpack
    \/ CallModel

SpecCall == InitCall /\ [][NextCall]_vars

\* ------------------------------------ Instructor.train with a log of the run
logFrame == <<ipc, built, attempts, caught, slept, exc, dataVars, extractVars, loaderVars,
              ckptVars, optimVars, decodeVars, fusionVars, callVars>>

\* The larger of two numbers.
Larger(a, b) == IF a >= b THEN a ELSE b

\* Lines 137-140: the sums start at 0.
LoggedTrainBegin ==
    /\ TrainBeginStep
    /\ sums' = ZeroMetrics
    /\ UNCHANGED <<saved, observed>>
    /\ UNCHANGED logFrame

\* One iteration of the batch loop; an evaluation adds its metrics to the sums
\* (lines 180-182) and each _save_model call creates or rewrites its directory.
LoggedTrainBatch ==
    /\ \/ evals < MaxLoggedEvals
       \/ ~(EvalDue(StepIncrement(global_step), opt) /\ epoch >= opt.evaluate_begin)
    /\ TrainBatchStep
    /\ IF evals' = evals + 1
       THEN /\ sums' = [k \in DOMAIN sums |-> sums[k] + current'[k]]
            /\ observed' = [k \in DOMAIN observed |-> Larger(observed[k], current'[k])]
       ELSE UNCHANGED <<sums, observed>>
    /\ saved' = IF nsaves' > nsaves THEN saved \cup {last_saved'} ELSE saved
    /\ UNCHANGED logFrame

\* After the last epoch; the save of line 259 writes its directory.
LoggedTrainReturn ==
    /\ TrainReturnStep
    /\ saved' = IF nsaves' > nsaves THEN saved \cup {last_saved'} ELSE saved
    /\ UNCHANGED <<observed, sums>>
    /\ UNCHANGED logFrame

\* A constructed Instructor with one example per batch that evaluates from the
\* first epoch on.
InitLog ==
    /\ opt \in {o \in ConstructedOpts : o.batch_size = 1 /\ o.evaluate_begin = 0}
    /\ pc = "constructed"
    /\ ipc = Len(InitOrder) + 1
    /\ built = BuiltByInit(opt)
    /\ attempts = 1
    /\ caught = 0
    /\ slept = 0
    /\ exc = "None"
    /\ trainCalls = 0
    /\ epoch = 0
    /\ step = 0
    /\ global_step = 0
    /\ batches = 0
    /\ optimizer_steps = 0
    /\ max_test_metrics = ZeroMetrics
    /\ current = ZeroMetrics
    /\ evals = 0
    /\ lastEvalBatch = 0
    /\ save_path = NoPath
    /\ nsaves = 0
    /\ last_saved = NoPath
    /\ result = <<>>
    /\ DataIdle
    /\ ExtractIdle
    /\ LoaderIdle
    /\ CkptIdle
    /\ OptimIdle
    /\ DecodeIdle
    /\ FusionIdle
    /\ CallIdle
    /\ LogIdle

NextLog ==
    \/ LoggedTrainBegin
    \/ LoggedTrainBatch
    \/ LoggedTrainReturn

SpecLog == InitLog /\ [][NextLog]_vars

\* ------------------------------------------------------------------ claims
MetricNames == {"apc_test_acc", "apc_test_f1", "ate_test_f1"}

\* An evaluation event: a step of train in which evaluate() ran.
EvalEvent == evals' = evals + 1

\* A _save_model call happened in the step.
SaveEvent == nsaves' > nsaves

\* C1: within one run of Instructor.train none of the three running maxima ever
\* decreases, whatever the evaluations return.
C1_MaxNeverDecreases ==
    [][\A k \in MetricNames : max_test_metrics'[k] >= max_test_metrics[k]]_vars

\* C1 witness: an evaluation that observed all zeros after the accuracy maximum had
\* been raised, the maximum kept.
C1_Witness ==
    /\ pc = "train"
    /\ evals >= 2
    /\ current = ZeroMetrics
    /\ max_test_metrics.apc_test_acc > 0

\* C2 as stated: in every evaluation event the model is saved iff one of the observed
\* metrics is strictly above its running maximum of before the event.
C2_SaveIffImproved ==
    [][EvalEvent =>
         (SaveEvent <=> \E k \in MetricNames : current'[k] > max_test_metrics[k])]_vars

\* C2 amended: in every evaluation event the model is saved iff model_path_to_save is
\* set and one of the observed metrics is strictly above its running maximum of before
\* the event.
C2_SaveIffImprovedAndPathSet ==
    [][EvalEvent =>
         (SaveEvent <=> /\ opt.model_path_to_save /= ""
                        /\ \E k \in MetricNames : current'[k] > max_test_metrics[k])]_vars

\* C2 witness: two evaluations with a save path set, one of which saved and one not.
C2_Witness ==
    /\ pc = "train"
    /\ opt.model_path_to_save /= ""
    /\ evals = 2
    /\ nsaves = 1

\* C3 as stated: a path returned by train is the directory of the latest _save_model
\* call of the run, and some call was made.
C3_ReturnedPathWasSaved ==
    (pc = "returned" /\ Len(result) = 2) => (nsaves > 0 /\ result[2] = last_saved)

\* C4 as stated: with gradient_accumulation_steps < 1 the ValueError of __init__ reaches
\* the caller of train4atepc and the construction is not tried again.
C4_ConfigErrorIsFatal ==
    opt.gradient_accumulation_steps < 1 =>
        /\ attempts <= 1
        /\ (exc = "ValueError" => pc = "raised")

\* C5: every failed fetch of the pretrained encoder is caught, followed by a sleep of
\* 60 seconds and another construction, however many came before; train is called at
\* most once, and only on the Instructor of the first construction that succeeded.
C5_RetryOnConnectionError ==
    opt.gradient_accumulation_steps >= 1 =>
        /\ (exc = "ValueError" => pc = "loop")
        /\ slept = 60 * caught
        /\ trainCalls <= 1
        /\ (trainCalls = 1 =>
              /\ pc = "train"
              /\ attempts = caught + 1
              /\ {"encoder", "model", "optimizer"} \subseteq built)

\* C5 witness: train called after two failed fetches.
C5_Witness ==
    /\ opt.gradient_accumulation_steps >= 1
    /\ caught = 2
    /\ slept = 120
    /\ trainCalls = 1

\* What __init__ allocates, reads or builds besides its logger.
Resources ==
    {"out_dir", "tokenizer", "encoder", "train_file_read", "train_data",
     "test_file_read", "eval_data", "model", "optimizer"}

\* C6: with gradient_accumulation_steps = 0 __init__ raises before it reads a dataset
\* file or builds the encoder, the datasets, the model or the optimizer.
C6_CheckBeforeResources ==
    opt.gradient_accumulation_steps < 1 =>
        /\ built \cap Resources = {}
        /\ exc \in {"None", "ValueError"}
        /\ pc \in {"loop", "init"}

\* C6 witness: the configuration error raised with gradient_accumulation_steps = 0.
C6_Witness ==
    /\ opt.gradient_accumulation_steps = 0
    /\ exc = "ValueError"
    /\ caught >= 1

\* C7 as stated: no evaluation in an epoch below evaluate_begin, and consecutive
\* evaluation events are exactly log_step training batches apart.
C7_EvalEveryLogStep ==
    [][EvalEvent =>
         /\ epoch >= opt.evaluate_begin
         /\ (evals >= 1 => batches' - lastEvalBatch = opt.log_step)]_vars

\* The labels of the file, and whether they are exactly min..max.
FileLabels == {ds_labels[i] : i \in 1..Len(ds_labels)}
Dense(S) == S /= {} /\ S = SetMin(S)..SetMax(S)
ZeroBased(S) == S /= {} /\ S = 0..SetMax(S)

RunStarts(tags) == {i \in 1..Len(tags) : tags[i] = "B-ASP"}
RunEnd(tags, i) ==
    SetMax({j \in i..Len(tags) : \A h \in (i + 1)..j : tags[h] = "I-ASP"})
NthStart(tags, k) ==
    CHOOSE i \in RunStarts(tags) : Cardinality({j \in RunStarts(tags) : j <= i}) = k

\* Every I-ASP continues a span: it follows a B-ASP or an I-ASP.
WellFormedBIO(tags) ==
    \A i \in 1..Len(tags) : tags[i] = "I-ASP" => (i > 1 /\ HasASP(tags[i - 1]))

\* C10 as stated, over the well-formed tag sequences: _extract returns one result per
\* B-ASP(I-ASP)* run of the decoded tags, in the order of the runs: as many results
\* as runs, the k-th result keeping the tags of the k-th run.
C10_OneResultPerRun ==
    (ex_pc = "returned" /\ WellFormedBIO(decoded)) =>
        /\ Len(res) = Cardinality(RunStarts(decoded))
        /\ \A k \in 1..Len(res) :
              LET i == NthStart(decoded, k)
              IN  \A h \in i..RunEnd(decoded, i) : res[k].iobs[h] = decoded[h]

\* The positions of the span that starts at i.
SpanAt(tags, i) == i..RunEnd(tags, i)

\* C11 as stated, over the well-formed tag sequences: every result of _extract shows
\* exactly one aspect: it keeps the tags of one B-ASP(I-ASP)* run of the decoded
\* tags, has O at every other position and the padding sentinel in its polarity
\* mask at every position outside that run; two runs give exactly two results.
C11_OneAspectPerResult ==
    (ex_pc = "returned" /\ WellFormedBIO(decoded)) =>
        /\ \A k \in 1..Len(res) :
              \E i \in RunStarts(decoded) :
                  \A h \in 1..Len(decoded) :
                      IF h \in SpanAt(decoded, i)
                      THEN res[k].iobs[h] = decoded[h]
                      ELSE /\ res[k].iobs[h] = "O"
                           /\ res[k].polarity[h] = SENTIMENT_PADDING
        /\ Cardinality(RunStarts(decoded)) = 2 => Len(res) = 2

\* C12: when the decoded tag sequence contains no aspect span, _extract returns an
\* empty result list and extract_aspect completes without raising: it never ends
\* in an exception and what it returns for the sentiments is None or an empty list.
C12_NoSpanEmptyNoError ==
    RunStarts(decoded) = {} =>
        /\ ex_pc \in {"returned", "done", "raised"} => res = <<>>
        /\ ex_pc # "raised"
        /\ ex_exc = "None"
        /\ ex_pc = "done" => polarity_res \in {<<"None">>, <<"list", <<>>>>}

\* A sentence without an aspect went through _extract and _infer.
C12_Witness ==
    /\ ex_pc = "done"
    /\ Len(decoded) > 0
    /\ RunStarts(decoded) = {}
    /\ res = <<>>
    /\ polarity_res = <<"list", <<>>>>

\* The sentiment_map argument carries its own entry for the padding sentinel.
CallerSuppliedPadding(sm) == ~sm.is_none /\ SENTIMENT_PADDING \in DOMAIN sm.map

\* C13: after construction and after any sequence of set_sentiment_map calls (custom
\* map, empty map or None), the dictionary _infer uses contains an entry for the
\* padding sentinel, which is the empty string unless the caller supplied one; the
\* dictionary a finished _infer call used is that dictionary.
C13_PaddingEntryAlways ==
    LET used == Sentiments(sentiment_map, polarities_dim)
    IN  /\ SENTIMENT_PADDING \in DOMAIN used
        /\ used[SENTIMENT_PADDING] =
              IF CallerSuppliedPadding(map_arg) THEN map_arg.map[SENTIMENT_PADDING] ELSE ""
        /\ (ex_pc \in {"done", "raised"} /\ polarity_res # <<"None">>) => sentiments = used

\* _infer classified an aspect through a custom map that came without the padding
\* entry.
C13_Witness ==
    /\ Truthy(map_arg)
    /\ ~CallerSuppliedPadding(map_arg)
    /\ ex_pc = "done"
    /\ polarity_res # <<"None">>
    /\ res # <<>>
    /\ sentiments = sentiment_map.map
    /\ sentiments[SENTIMENT_PADDING] = ""

\* C14: with model_path_to_save empty (or None), Instructor.train never calls
\* _save_model, whatever the batches and evaluations, and it returns the in-memory
\* model tuple instead of a path.
C14_NoPathNoSaveReturnsModel ==
    opt.model_path_to_save = "" =>
        /\ nsaves = 0
        /\ last_saved = NoPath
        /\ pc = "returned" => result = <<"model">>

\* train returned without a configured path after an evaluation that improved a
\* metric.
C14_Witness ==
    /\ opt.model_path_to_save = ""
    /\ pc = "returned"
    /\ evals > 0
    /\ max_test_metrics # ZeroMetrics
    /\ result = <<"model">>

\* C19 as stated: the global step counter advances by exactly one per training
\* batch, so after n batches (counted across epochs) it equals n.
C19_StepEqualsBatches ==
    pc \in {"train", "returned"} => global_step = batches

\* C20: no evaluation event performs more than one _save_model call, also when two
\* or all three metrics improve at once.
C20_AtMostOneSavePerEvaluation ==
    [][EvalEvent => nsaves' <= nsaves + 1]_vars

\* An evaluation in which all three metrics rose above their maxima was saved once.
C20_Witness ==
    /\ pc = "train"
    /\ opt.model_path_to_save /= ""
    /\ evals = 1
    /\ \A k \in MetricNames : current[k] > 0
    /\ max_test_metrics = current
    /\ nsaves = 1
    /\ last_saved = EvalSavePath(current)

\* C15 as stated: every evaluation pass of the Instructor visits the examples of the
\* held-out split in dataset order (only training passes may be in another order).
C15_EvalInDatasetOrder ==
    \A k \in 1..Len(passes) :
        passes[k].split = "eval" => passes[k].order = [i \in 1..NumEvalExamples |-> i]

\* name ends with suffix
EndsWith(name, suffix) == name[Len(name)] = suffix

\* C16 as stated: a directory written by _save_model (mode 0) holds one file for
\* each of .model, .config and .tokenizer, and find_target_file(dir, suffix,
\* find_all=True) returns exactly the file with that suffix, none that belongs to
\* another artifact.
C16_EachSuffixFindsItsFile ==
    /\ dir # {} =>
          \A sfx \in Suffixes : Cardinality({f \in dir : EndsWith(f.name, sfx)}) = 1
    /\ (/\ found.listing # {}
        /\ found.file_type \in Suffixes
        /\ found.find_all
        /\ found.exclude_key = "") =>
          found.result = {f \in found.listing : EndsWith(f.name, found.file_type)}

\* C17 as stated: at every forward pass of an AspectExtractor the input tensors and
\* the model are on the same device, after loading from a checkpoint path and after
\* any sequence of to, cpu and cuda calls.
C17_ForwardOnOneDevice ==
    fwd # <<>> => fwd[1] = fwd[2]

\* The directory the constructor listed has no .config file, or neither a .model nor
\* a .state_dict file.
LacksArtifact(listing) ==
    \/ Matching(listing, ".config", "") = {}
    \/ Matching(listing, ".model", "") = {} /\ Matching(listing, ".state_dict", "") = {}

\* C18 as stated: constructing an AspectExtractor from a directory that lacks a
\* required artifact fails with FileNotFoundError before any later construction
\* step runs.
C18_MissingArtifactFailsAtOnce ==
    (found # NoFind /\ LacksArtifact(found.listing)) =>
        /\ x_pc = "failed"
        /\ x_exc = "FileNotFoundError"
        /\ x_steps = {}

\* C21: in Instructor.train the running maxima change only in an evaluation event,
\* so a batch without evaluation leaves them as they are, and the model parameters
\* change only by the one optimizer step of a training batch: an evaluation adds no
\* optimizer step of its own.
C21_OneMutatorEach ==
    [][/\ max_test_metrics' # max_test_metrics => EvalEvent
       /\ optimizer_steps' # optimizer_steps =>
             /\ batches' = batches + 1
             /\ optimizer_steps' = optimizer_steps + 1]_vars

\* Batches with and without an evaluation were processed, and an evaluation raised
\* a maximum.
C21_Witness ==
    /\ pc = "train"
    /\ evals >= 1
    /\ evals < batches
    /\ optimizer_steps = batches
    /\ max_test_metrics # ZeroMetrics

\* C22 as stated: the optimizer has two parameter groups; the parameters whose name
\* contains none of bias, LayerNorm.bias, LayerNorm.weight get weight decay l2reg,
\* the bias and normalization parameters get weight decay 0.
C22_NoDecayGroupHasZeroDecay ==
    param_groups # <<>> =>
        /\ Len(param_groups) = 2
        /\ \A n \in param_names :
              \E g \in 1..Len(param_groups) :
                  /\ n \in param_groups[g].params
                  /\ param_groups[g].weight_decay = IF AnyNoDecay(n) THEN 0 ELSE l2reg

\* The smaller of two numbers.
Min2(a, b) == IF a <= b THEN a ELSE b

\* C23: the tag decoding of _extract skips position 0 and stops as soon as it has as
\* many labels as the sentence has word tokens: the decoded sequence holds the labels
\* of positions 1, 2, ... , it never has more labels than tokens, and when the loop
\* is over its length is min(number of tokens, max_seq_len - 1).
C23_DecodedLength ==
    /\ Len(dec_iobs) <= n_tokens
    /\ \A k \in 1..Len(dec_iobs) : dec_iobs[k] = LabelOf(ate_logits[k + 1])
    /\ dec_pc = "done" => Len(dec_iobs) = Min2(n_tokens, Len(ate_logits) - 1)

\* A sentence shorter than max_seq_len - 1 was decoded: the loop stopped at the
\* token count; and one longer than that: the loop ran out of positions.
C23_Witness ==
    /\ dec_pc = "done"
    /\ n_tokens >= 1
    /\ Len(dec_iobs) = n_tokens
    /\ n_tokens < Len(ate_logits) - 1
    /\ "B-ASP" \in {dec_iobs[k] : k \in 1..Len(dec_iobs)}

\* The positions of v, in increasing order, at which v is 1.
RECURSIVE ValidPositions(_)
ValidPositions(v) ==
    IF v = <<>> THEN <<>>
    ELSE LET front == ValidPositions(SubSeq(v, 1, Len(v) - 1))
         IN  IF v[Len(v)] = 1 THEN Append(front, Len(v)) ELSE front

\* C24: the compression of the forward pass gathers the valid positions into a dense
\* prefix: once the loop is over, row k of the output is the encoder vector at the
\* k-th position with valid_ids = 1, the number of filled rows is the number of valid
\* positions, and every later row is zero.
C24_DensePrefix ==
    fw_pc \in {"local", "done"} /\ task = "atepc" =>
        LET pos == ValidPositions(valid_ids)
        IN  /\ fw_jj + 1 = Len(pos)
            /\ Len(valid_output) = Len(context_out)
            /\ \A k \in 1..Len(valid_output) :
                   valid_output[k] = IF k <= Len(pos) THEN context_out[pos[k]] ELSE 0

\* A compression with a gap was done: a valid position follows an invalid one, the
\* vector moved to an earlier row and a zero row is left at the end.
C24_Witness ==
    /\ fw_pc = "done"
    /\ task = "atepc"
    /\ Len(valid_ids) >= 3
    /\ valid_ids[1] = 1
    /\ valid_ids[2] = 0
    /\ valid_ids[3] = 1
    /\ context_out[1] = 1
    /\ context_out[2] = 1
    /\ context_out[3] = 2
    /\ valid_output[2] = 2
    /\ valid_output[3] = 0

\* C25: in every lcf mode each weighted local representation has passed the
\* self-attention block when it is concatenated with the global features.
C25_WeightedLocalPassesSA ==
    fw_pc = "done" =>
        \A k \in 1..Len(cat_out) :
            cat_out[k].of = "local" => cat_out[k].blocks = <<"SA">>

\* C26: in fusion mode the feature record of an example holds both the CDM and the
\* CDW vector.
C26_FusionRecordKeepsBoth ==
    fw_pc # "idle" /\ lcf = "fusion" => Retained(record) = {"CDM", "CDW"}

\* C27: at every site, _infer included, the model receives the segment_ids field of
\* the feature record as token_type_ids and its input_mask field as attention_mask.
C27_SameFieldToArgument ==
    call_pc = "called" =>
        /\ passed.token_type_ids = feature.segment_ids
        /\ passed.attention_mask = feature.input_mask

\* C28: the batch size of a constructed Instructor is the configured batch size
\* floor-divided by gradient_accumulation_steps, however many attempts train4atepc
\* made before.
C28_BatchSizeDividedOnce ==
    pc = "constructed" =>
        opt.batch_size = ConfiguredBatchSize \div opt.gradient_accumulation_steps

\* C29: no checkpoint directory is written twice in one run of train: the directory
\* of every _save_model call differs from the directories written before it.
C29_NoDirectoryWrittenTwice ==
    [][SaveEvent => last_saved' \notin saved]_vars

\* C29 witness: two evaluations of one run that both saved.
C29_Witness ==
    /\ pc = "train"
    /\ evals = 2
    /\ nsaves = 2
    /\ Cardinality(saved) = 2

\* C30: after every evaluation event each running maximum is the largest value of its
\* metric that the evaluations of the run returned (0 when none was above 0), and the
\* sums of the metrics take no part in the tests: an evaluation saves iff a path is
\* configured and a returned metric is above its maximum, and raises exactly the
\* maxima below the returned value.
C30_MaxIsLargestObserved ==
    /\ [](max_test_metrics = observed)
    /\ [][EvalEvent =>
            /\ SaveEvent <=> (PathConfigured(opt) /\ \E k \in MetricNames :
                                                       current'[k] > max_test_metrics[k])
            /\ \A k \in MetricNames :
                   max_test_metrics'[k] /= max_test_metrics[k]
                       <=> current'[k] > max_test_metrics[k]]_vars

\* C30 witness: after two evaluations the sum of a metric is above its maximum, and
\* the second evaluation, below the maximum, saved nothing.
C30_Witness ==
    /\ evals = 2
    /\ nsaves = 1
    /\ sums.apc_test_acc > max_test_metrics.apc_test_acc
    /\ sums.apc_test_f1 > current.apc_test_f1
    /\ current.apc_test_f1 < max_test_metrics.apc_test_f1

====
